---- MODULE Spec2Model ----
(***************************************************************************)
(* Reservation / confirmation core of Evently_backend.                     *)
(*                                                                         *)
(* One event, its seat rows, the booking rows, the Redis locks and a set   *)
(* of request handlers that run concurrently.  A handler is cut at the     *)
(* awaits where another request can come between: its reads before the    *)
(* lock, the lock, the statements of its transaction.  A database          *)
(* transaction takes effect at its commit, and rows written or selected    *)
(* FOR UPDATE stay row-locked from that statement to the commit.           *)
(* The clock is counted in ticks and may advance between any two steps.    *)
(* An event sells either its seat rows (SEAT_SELECTION) or tickets counted *)
(* in availableSeats (GENERAL).                                            *)
(***************************************************************************)
EXTENDS Integers, Sequences, FiniteSets, TLC

Users == {"u1", "u2"}
Seats == {"s1", "s2"}
\* The seat sets a request may name: they overlap in s1.
Selections == {{}, {"s1"}, {"s1", "s2"}}

\* Requests in flight at once, bookings ever created, the last clock value.
MaxProcs == 2
MaxBookings == 2
MaxTime == 3
MaxCharges == 2
MaxEntries == 3

Procs == 1..MaxProcs

\* Durations, in clock ticks (a tick is coarser than the lock TTLs).
HoldDuration == 2
EventLockTTL == 1
ConfirmLockTTL == 1

EventPrice == 50
SeatPrice(s) == IF s = "s1" THEN 50 ELSE 30
Capacity == Cardinality(Seats)

NoTime == 0 - 1
NoUser == "none"
NoToken == NoTime
BookingIds == 1..MaxBookings

VARIABLES now, seats, rowLock, bookings, event, locks, proc, charged, last

vars == <<now, seats, rowLock, bookings, event, locks, proc, charged, last>>

store == <<seats, bookings, event>>

----------------------------------------------------------------------------
(* Rows *)

FreshSeat ==
  [isBooked |-> FALSE, isReserved |-> FALSE, isBlocked |-> FALSE,
   reservedBy |-> NoUser, reserveExpiresAt |-> NoTime,
   bookedBy |-> NoUser, bookingId |-> 0, bookedAt |-> NoTime, version |-> 0]

NoPayment == NoTime

\* paymentDetails.method of a confirmBooking request.
Methods == {"CARD", "UPI"}

NewBooking(u, type, sel, cnt, total, status, exp) ==
  [userId |-> u, bookingType |-> type, seatIds |-> sel, ticketCount |-> cnt,
   totalAmount |-> total, status |-> status, reservationExpiresAt |-> exp,
   paymentStatus |-> "PENDING", paymentId |-> NoPayment, paymentMethod |-> "none",
   confirmedAt |-> NoTime, expiredAt |-> NoTime,
   cancelledAt |-> NoTime, refundAmount |-> NoTime,
   seatNumbers |-> {}, seatSection |-> "none",
   ticketHash |-> FALSE, qrValidated |-> FALSE, expiryTimer |-> NoTime]

IdleProc ==
  [pc |-> "idle", op |-> "none", user |-> NoUser, bk |-> 0, type |-> "none",
   sel |-> {}, cnt |-> 0, lk |-> NoToken, ev |-> <<>>, seatExp |-> NoTime,
   method |-> "none", section |-> "none", numbers |-> {}, position |-> 0,
   loaded |-> "none", key |-> <<"none", 0>>, retried |-> FALSE]

\* The answer given by the step that led to the current state, if that step
\* answered a request: to which call, about which booking, with which HTTP
\* status, and the seats the body lists as unavailable.
Answer(op, b, code, unavailable) ==
  [op |-> op, bk |-> b, resp |-> code, unavailable |-> unavailable]

NoAnswer == Answer("none", 0, 0, {})

RECURSIVE SumPrice(_)
SumPrice(S) ==
  IF S = {} THEN 0
  ELSE LET s == CHOOSE x \in S : TRUE IN SeatPrice(s) + SumPrice(S \ {s})

LockKeys ==
  {<<"event_booking", 0>>, <<"event", 0>>, <<"seats", 0>>}
    \cup {<<"booking_confirm", b>> : b \in BookingIds}

FreeLock == [value |-> NoToken, expiresAt |-> 0]

----------------------------------------------------------------------------
(* Redis lock *)

\* SET key value PX ttl NX answers OK when the key is absent or has expired.
LockFree(k) == locks[k].value = NoToken \/ locks[k].expiresAt <= now

\* The value stored is `${Date.now()}-${Math.random()}`: the instant stands for
\* it, no key being set twice in one tick.
LockValue == now

\* SET key value NX without PX: a key that never runs out.
LockAcquiredForGood(k, ttl) ==
  [locks EXCEPT ![k] = [value |-> LockValue, expiresAt |-> now + ttl + MaxTime + 1]]

LockAcquired(k, ttl) == [locks EXCEPT ![k] = [value |-> LockValue, expiresAt |-> now + ttl]]

\* A release that deletes the key whatever value it holds.
LockDeleted(k, value) == [locks EXCEPT ![k] = FreeLock]

\* The release script calls redis.call("GET", KEYS) with the KEYS table itself,
\* not KEYS[1]; redis.call rejects a table argument, EVAL fails, the catch
\* answers false and the key stays until its TTL.
LockReleased(k, value) == locks

----------------------------------------------------------------------------
\* Event.dateTime of the event created, in units of the clock counted from the
\* start: 12 hours, 3 days and 30 days away.
EventTimes == {12, 3 * 24, 30 * 24}

InitWith(dateTime) ==
  /\ now = 0
  /\ seats = [s \in Seats |-> FreshSeat]
  /\ rowLock = [s \in Seats |-> 0]
  /\ bookings = <<>>
  /\ event = [availableSeats |-> Capacity, dateTime |-> dateTime,
              waitlist |-> <<>>]
  /\ locks = [k \in LockKeys |-> FreeLock]
  /\ proc = [p \in Procs |-> IdleProc]
  /\ charged = [b \in BookingIds |-> 0]
  /\ last = NoAnswer

\* An event 30 days away.
Init == InitWith(30 * 24)

\* An event at any of the distances.
InitDated == \E dateTime \in EventTimes : InitWith(dateTime)

\* Some deadline is still ahead: a hold, a lock, or one a handler took with it.
\* Once every deadline is behind, a later clock changes no comparison.
DeadlineAhead ==
  \/ \E b \in 1..Len(bookings) : bookings[b].reservationExpiresAt >= now
  \/ \E s \in Seats : seats[s].reserveExpiresAt >= now
  \/ \E k \in LockKeys : locks[k].expiresAt > now
  \/ \E p \in Procs : proc[p].seatExp >= now
  \/ \E b \in 1..Len(bookings) : bookings[b].expiryTimer >= now

\* The clock advances; Redis drops the keys whose TTL has run out.
Tick ==
  /\ now < MaxTime
  /\ DeadlineAhead
  /\ now' = now + 1
  /\ locks' = [k \in LockKeys |-> IF locks[k].expiresAt <= now + 1 THEN FreeLock ELSE locks[k]]
  /\ last' = NoAnswer
  /\ UNCHANGED <<seats, rowLock, bookings, event, proc, charged>>

----------------------------------------------------------------------------
(* reserveSeats *)

\* The handler answers: it is idle again and its answer is the latest one.
Answered(p, op, b, code) ==
  /\ proc' = [proc EXCEPT ![p] = IdleProc]
  /\ last' = Answer(op, b, code, {})

\* The 409 of reserveSeats, with data.unavailableSeats.
AnsweredUnavailable(p, unavailable) ==
  /\ proc' = [proc EXCEPT ![p] = IdleProc]
  /\ last' = Answer("reserveSeats", 0, 409, unavailable)

\* A request is taken by the first handler that is free: the handlers are
\* alike, which of them runs a request changes nothing.
Accepts(p) ==
  /\ proc[p].pc = "idle"
  /\ \A q \in Procs : q < p => proc[q].pc # "idle"

Creating ==
  {q \in Procs : proc[q].op \in {"reserveSeats", "createBooking", "bookSpecificSeats",
                                 "selectSeats", "serviceSelectSeats"}}

\* Booking.findOne for an unexpired RESERVED booking of the same user.
ActiveReservationOf(u) ==
  {b \in 1..Len(bookings) :
     /\ bookings[b].userId = u
     /\ bookings[b].status = "RESERVED"
     /\ bookings[b].reservationExpiresAt > now}

\* Input validation, Event.findByPk and the check for a hold the user already
\* has, all before the lock.  The event instance read here is the one the
\* handler uses to its end.
ReserveBegin(p, u, type, sel, cnt) ==
  /\ Accepts(p)
  /\ Len(bookings) + Cardinality(Creating) < MaxBookings
  /\ IF sel = {} /\ cnt = 0
     THEN Answered(p, "reserveSeats", 0, 400)
     ELSE IF ActiveReservationOf(u) # {}
     THEN Answered(p, "reserveSeats", 0, 409)
     ELSE /\ proc' = [proc EXCEPT ![p] =
                        [IdleProc EXCEPT !.pc = "rs_lock", !.op = "reserveSeats",
                                         !.user = u, !.type = type, !.sel = sel,
                                         !.cnt = cnt, !.ev = <<event>>]]
          /\ last' = NoAnswer
  /\ UNCHANGED <<now, seats, rowLock, bookings, event, locks, charged>>

ReserveAcquire(p) ==
  /\ proc[p].pc = "rs_lock"
  /\ LET k == <<"event_booking", 0>> IN
     IF LockFree(k)
     THEN /\ locks' = LockAcquired(k, EventLockTTL)
          /\ proc' = [proc EXCEPT ![p].lk = LockValue,
                                  ![p].pc = IF proc[p].type = "SEAT_SELECTION"
                                            THEN "rs_seats" ELSE "rs_cap"]
          /\ last' = NoAnswer
     ELSE /\ locks' = locks
          /\ Answered(p, "reserveSeats", 0, 429)
  /\ UNCHANGED <<now, seats, rowLock, bookings, event, charged>>

\* The WHERE clause without its test of the hold.
SeatNotBooked(s) == ~seats[s].isBooked

\* The WHERE clause of the Seat.findAll ... FOR UPDATE of reserveSeats.
SeatSelectable(s) ==
  /\ ~seats[s].isBooked
  /\ \/ ~seats[s].isReserved
     \/ seats[s].isReserved /\ seats[s].reserveExpiresAt < now

\* Seat.findAll FOR UPDATE, the size check and Seat.update: the rows found are
\* row-locked until the commit, the update is pending until then.
ReserveSeatsTxn(p) ==
  /\ proc[p].pc = "rs_seats"
  /\ LET found == {s \in proc[p].sel : SeatSelectable(s)} IN
     /\ \A s \in found : rowLock[s] = 0
     /\ IF found # proc[p].sel
        THEN /\ locks' = LockReleased(<<"event_booking", 0>>, proc[p].lk)
             /\ AnsweredUnavailable(p, proc[p].sel \ found)
             /\ rowLock' = rowLock
        ELSE /\ rowLock' = [s \in Seats |-> IF s \in found THEN p ELSE rowLock[s]]
             /\ proc' = [proc EXCEPT ![p].pc = "rs_create",
                                     ![p].seatExp = now + HoldDuration]
             /\ locks' = locks
             /\ last' = NoAnswer
  /\ UNCHANGED <<now, seats, bookings, event, charged>>

ReservedSeat(s, u, exp) ==
  [seats[s] EXCEPT !.isReserved = TRUE, !.reservedBy = u,
                   !.reserveExpiresAt = exp, !.version = @ + 1]

\* Booking.create, commit and lock.release, then the 201.  The booking's
\* reservationExpiresAt is read from the clock anew, after the seats' was.
\* bookingService.scheduleReservationTimeout, called next, is in no file of
\* the source: the in-memory timer it would set is left out, a hold ends by
\* its reservationExpiresAt and by the two cleanups.
ReserveCommit(p) ==
  /\ proc[p].pc = "rs_create"
  /\ LET r == proc[p] IN
     /\ seats' = [s \in Seats |-> IF s \in r.sel THEN ReservedSeat(s, r.user, r.seatExp)
                                  ELSE seats[s]]
     /\ bookings' = Append(bookings,
                      NewBooking(r.user, r.type, r.sel, Cardinality(r.sel),
                                 SumPrice(r.sel), "RESERVED", now + HoldDuration))
     /\ rowLock' = [s \in Seats |-> IF rowLock[s] = p THEN 0 ELSE rowLock[s]]
     /\ locks' = LockReleased(<<"event_booking", 0>>, r.lk)
     /\ Answered(p, "reserveSeats", Len(bookings) + 1, 201)
  /\ UNCHANGED <<now, event, charged>>

\* General admission: the availability check and event.update use the event
\* instance read before the lock; the UPDATE writes the value computed from it.
\* reservedSeats is no column of Event and is not stored.
ReserveCapacityTxn(p) ==
  /\ proc[p].pc = "rs_cap"
  /\ LET r == proc[p]
         avail == r.ev[1].availableSeats
     IN
     IF avail < r.cnt
     THEN /\ locks' = LockReleased(<<"event_booking", 0>>, r.lk)
          /\ Answered(p, "reserveSeats", 0, 409)
          /\ UNCHANGED <<event, bookings>>
     ELSE /\ event' = [event EXCEPT !.availableSeats = avail - r.cnt]
          /\ bookings' = Append(bookings,
                           NewBooking(r.user, r.type, {}, r.cnt, EventPrice * r.cnt,
                                      "RESERVED", now + HoldDuration))
          /\ locks' = LockReleased(<<"event_booking", 0>>, r.lk)
          /\ Answered(p, "reserveSeats", Len(bookings) + 1, 201)
  /\ UNCHANGED <<now, seats, rowLock, charged>>

----------------------------------------------------------------------------
(* createBooking *)

\* Event.prototype.isBookable, for an event that is published and not begun.
IsBookable == event.availableSeats > 0 /\ now < event.dateTime

CreateBegin(p, u, cnt) ==
  /\ Accepts(p)
  /\ Len(bookings) + Cardinality(Creating) < MaxBookings
  /\ IF ~IsBookable
     THEN Answered(p, "createBooking", 0, 400)
     ELSE /\ proc' = [proc EXCEPT ![p] =
                        [IdleProc EXCEPT !.pc = "cb_lock", !.op = "createBooking",
                                         !.user = u, !.type = "GENERAL", !.cnt = cnt]]
          /\ last' = NoAnswer
  /\ UNCHANGED <<now, seats, rowLock, bookings, event, locks, charged>>

CreateAcquire(p) ==
  /\ proc[p].pc = "cb_lock"
  /\ LET k == <<"event", 0>> IN
     IF LockFree(k)
     THEN /\ locks' = LockAcquired(k, EventLockTTL)
          /\ proc' = [proc EXCEPT ![p].lk = LockValue, ![p].pc = "cb_txn"]
          /\ last' = NoAnswer
     ELSE /\ locks' = locks
          /\ Answered(p, "createBooking", 0, 500)
  /\ UNCHANGED <<now, seats, rowLock, bookings, event, charged>>

\* The transaction: the event row is read again FOR UPDATE, checked, the
\* booking created and the row written; the row lock makes this one step.
\* The booking's deadline goes to expiresAt, a field nothing else reads.
CreateTxn(p) ==
  /\ proc[p].pc = "cb_txn"
  /\ LET r == proc[p] IN
     IF event.availableSeats < r.cnt
     THEN /\ locks' = LockReleased(<<"event", 0>>, r.lk)
          /\ Answered(p, "createBooking", 0, 409)
          /\ UNCHANGED <<event, bookings>>
     ELSE /\ bookings' = Append(bookings,
                           NewBooking(r.user, r.type, {}, r.cnt, EventPrice * r.cnt,
                                      "PENDING", NoTime))
          /\ event' = [event EXCEPT !.availableSeats = @ - r.cnt]
          /\ locks' = LockReleased(<<"event", 0>>, r.lk)
          /\ Answered(p, "createBooking", Len(bookings) + 1, 201)
  /\ UNCHANGED <<now, seats, rowLock, charged>>

----------------------------------------------------------------------------
(* bookSpecificSeats *)

\* Validation and Event.findByPk: the event instance read here is the one
\* whose availableSeats is written at the end.
BookBegin(p, u, sel) ==
  /\ Accepts(p)
  /\ Len(bookings) + Cardinality(Creating) < MaxBookings
  /\ IF sel = {}
     THEN Answered(p, "bookSpecificSeats", 0, 400)
     ELSE /\ proc' = [proc EXCEPT ![p] =
                        [IdleProc EXCEPT !.pc = "bs_lock", !.op = "bookSpecificSeats",
                                         !.user = u, !.type = "SEAT_SELECTION",
                                         !.sel = sel, !.ev = <<event>>]]
          /\ last' = NoAnswer
  /\ UNCHANGED <<now, seats, rowLock, bookings, event, locks, charged>>

BookAcquire(p) ==
  /\ proc[p].pc = "bs_lock"
  /\ LET k == <<"seats", 0>> IN
     IF LockFree(k)
     THEN /\ locks' = LockAcquired(k, EventLockTTL)
          /\ proc' = [proc EXCEPT ![p].lk = LockValue, ![p].pc = "bs_txn"]
          /\ last' = NoAnswer
     ELSE /\ locks' = locks
          /\ Answered(p, "bookSpecificSeats", 0, 500)
  /\ UNCHANGED <<now, seats, rowLock, bookings, event, charged>>

\* The Seat.update of bookSpecificSeats: the reservation fields and the
\* version are not written.
DirectlyBookedSeat(s, u, b) ==
  [seats[s] EXCEPT !.isBooked = TRUE, !.bookedBy = u, !.bookingId = b,
                   !.bookedAt = now]

\* The transaction: Seat.findAll by id FOR UPDATE, the filter on isBooked and
\* isBlocked, Booking.create, Seat.update, event.update, commit.  The rows
\* stay locked from the select on, which makes it one step.  The booking
\* keeps no list of its seats: the seats point to it.
BookTxn(p) ==
  /\ proc[p].pc = "bs_txn"
  /\ LET r == proc[p]
         unavailable == {s \in r.sel : seats[s].isBooked \/ seats[s].isBlocked}
         b == Len(bookings) + 1
     IN
     /\ \A s \in r.sel : rowLock[s] = 0
     /\ IF unavailable # {}
        THEN /\ locks' = LockReleased(<<"seats", 0>>, r.lk)
             /\ proc' = [proc EXCEPT ![p] = IdleProc]
             /\ last' = Answer("bookSpecificSeats", 0, 409, unavailable)
             /\ UNCHANGED <<seats, bookings, event>>
        ELSE /\ bookings' = Append(bookings,
                              NewBooking(r.user, r.type, {}, Cardinality(r.sel),
                                         SumPrice(r.sel), "PENDING", NoTime))
             /\ seats' = [s \in Seats |-> IF s \in r.sel
                                           THEN DirectlyBookedSeat(s, r.user, b)
                                           ELSE seats[s]]
             /\ event' = [event EXCEPT !.availableSeats =
                                          r.ev[1].availableSeats - Cardinality(r.sel)]
             /\ locks' = LockReleased(<<"seats", 0>>, r.lk)
             /\ Answered(p, "bookSpecificSeats", b, 201)
  /\ UNCHANGED <<now, rowLock, charged>>

----------------------------------------------------------------------------
(* confirmBooking (reservation flow) *)

\* The same lookup without the restriction to RESERVED.
ConfirmFindsAnyStatus(u, b) ==
  /\ b <= Len(bookings)
  /\ bookings[b].userId = u
  /\ bookings[b].status \in {"RESERVED", "CONFIRMED"}

\* The same lookup without the restriction to the caller's bookings.
ConfirmFindsAnyUser(u, b) ==
  /\ b <= Len(bookings)
  /\ bookings[b].status = "RESERVED"

\* Booking.findOne({id, userId, status: 'RESERVED'}).
ConfirmFinds(u, b) ==
  /\ b <= Len(bookings)
  /\ bookings[b].userId = u
  /\ bookings[b].status = "RESERVED"

ConfirmBegin(p, u, b, m) ==
  /\ Accepts(p)
  /\ IF ~ConfirmFinds(u, b)
     THEN Answered(p, "confirmBooking", b, 404)
     ELSE IF now > bookings[b].reservationExpiresAt
     THEN Answered(p, "confirmBooking", b, 410)
     ELSE /\ proc' = [proc EXCEPT ![p] =
                        [IdleProc EXCEPT !.pc = "cf_lock", !.op = "confirmBooking",
                                         !.user = u, !.bk = b, !.method = m]]
          /\ last' = NoAnswer
  /\ UNCHANGED <<now, seats, rowLock, bookings, event, locks, charged>>

ConfirmAcquire(p) ==
  /\ proc[p].pc = "cf_lock"
  /\ LET k == <<"booking_confirm", proc[p].bk>> IN
     IF LockFree(k)
     THEN /\ locks' = LockAcquired(k, ConfirmLockTTL)
          /\ proc' = [proc EXCEPT ![p].lk = LockValue, ![p].pc = "cf_pay"]
          /\ last' = NoAnswer
     ELSE /\ locks' = locks
          /\ Answered(p, "confirmBooking", proc[p].bk, 429)
  /\ UNCHANGED <<now, seats, rowLock, bookings, event, charged>>

\* processPayment reports a failure: rollback, lock.release, 400.
ConfirmPaymentFails(p) ==
  /\ proc[p].pc = "cf_pay"
  /\ locks' = LockReleased(<<"booking_confirm", proc[p].bk>>, proc[p].lk)
  /\ Answered(p, "confirmBooking", proc[p].bk, 400)
  /\ UNCHANGED <<now, seats, rowLock, bookings, event, charged>>

\* paymentResult.paymentId is `PAY_${Date.now()}_${random}`: the instant stands
\* for it.
PaymentId == now

\* The same update with totalAmount written as well.
ConfirmedBookingRepriced(bk, m) ==
  [bk EXCEPT !.status = "CONFIRMED", !.paymentStatus = "COMPLETED",
             !.paymentId = PaymentId, !.paymentMethod = m,
             !.confirmedAt = now, !.reservationExpiresAt = NoTime,
             !.totalAmount = 0]

ConfirmedBooking(bk, m) ==
  [bk EXCEPT !.status = "CONFIRMED", !.paymentStatus = "COMPLETED",
             !.paymentId = PaymentId, !.paymentMethod = m,
             !.confirmedAt = now, !.reservationExpiresAt = NoTime]

\* The same update with the version left as it is.
BookedSeatSameVersion(s, u, b) ==
  [seats[s] EXCEPT !.isBooked = TRUE, !.isReserved = FALSE, !.bookedBy = u,
                   !.bookingId = b, !.bookedAt = now, !.reservedBy = NoUser,
                   !.reserveExpiresAt = NoTime]

BookedSeat(s, u, b) ==
  [seats[s] EXCEPT !.isBooked = TRUE, !.isReserved = FALSE, !.bookedBy = u,
                   !.bookingId = b, !.bookedAt = now, !.reservedBy = NoUser,
                   !.reserveExpiresAt = NoTime, !.version = @ + 1]

\* processPayment succeeds (the charge), then booking.update and Seat.update
\* by id, commit, lock.release.  The instance updated is the one read by
\* ConfirmBegin; what is read of it here (bookingType, seatDetails) is never
\* written after Booking.create, so the row holds the same values.  The event
\* counters written in the other branch (reservedSeats, bookedSeats) are no
\* columns of Event and are not stored.
ConfirmCommit(p) ==
  /\ proc[p].pc = "cf_pay"
  /\ LET r == proc[p]
         b == r.bk
         ids == IF bookings[b].bookingType = "SEAT_SELECTION" THEN bookings[b].seatIds ELSE {}
     IN
     /\ \A s \in ids : rowLock[s] = 0
     /\ charged' = [charged EXCEPT ![b] = @ + 1]
     /\ bookings' = [bookings EXCEPT ![b] = ConfirmedBooking(@, r.method)]
     /\ seats' = [s \in Seats |-> IF s \in ids THEN BookedSeat(s, r.user, b) ELSE seats[s]]
     /\ locks' = LockReleased(<<"booking_confirm", b>>, r.lk)
     /\ Answered(p, "confirmBooking", b, 200)
  /\ UNCHANGED <<now, rowLock, event>>

----------------------------------------------------------------------------
(* BookingController.confirmBooking (class flow) *)

\* Booking.findOne({id, userId, status in ['SEAT_SELECTED', 'RESERVED']}).
ClassConfirmFinds(u, b) ==
  /\ b <= Len(bookings)
  /\ bookings[b].userId = u
  /\ bookings[b].status \in {"SEAT_SELECTED", "RESERVED"}

\* The lookup and the expiry check: a booking past its reservationExpiresAt
\* is written EXPIRED at once, outside any transaction, and answered 410.
ClassConfirmBegin(p, u, b, m) ==
  /\ Accepts(p)
  /\ IF ~ClassConfirmFinds(u, b)
     THEN /\ Answered(p, "classConfirmBooking", b, 404)
          /\ bookings' = bookings
     ELSE IF bookings[b].reservationExpiresAt # NoTime
             /\ now > bookings[b].reservationExpiresAt
     THEN /\ bookings' = [bookings EXCEPT ![b].status = "EXPIRED"]
          /\ Answered(p, "classConfirmBooking", b, 410)
     ELSE /\ proc' = [proc EXCEPT ![p] =
                        [IdleProc EXCEPT !.pc = "kc_pay", !.op = "classConfirmBooking",
                                         !.user = u, !.bk = b, !.method = m]]
          /\ last' = NoAnswer
          /\ bookings' = bookings
  /\ UNCHANGED <<now, seats, rowLock, event, locks, charged>>

\* this.processPayment reports a failure: createError.badRequest, rollback.
ClassConfirmPaymentFails(p) ==
  /\ proc[p].pc = "kc_pay"
  /\ Answered(p, "classConfirmBooking", proc[p].bk, 400)
  /\ UNCHANGED <<now, seats, rowLock, bookings, event, locks, charged>>

\* The payment succeeds (the charge) and QRCode.toDataURL, which runs inside
\* the transaction before booking.update, throws: rollback, the error goes to
\* the error handler, 500.
ClassConfirmArtifactFails(p) ==
  /\ proc[p].pc = "kc_pay"
  /\ charged[proc[p].bk] < MaxCharges
  /\ charged' = [charged EXCEPT ![proc[p].bk] = @ + 1]
  /\ Answered(p, "classConfirmBooking", proc[p].bk, 500)
  /\ UNCHANGED <<now, seats, rowLock, bookings, event, locks>>

\* The booking.update of the class flow: confirmedAt is not written.
ClassConfirmedBooking(bk, m) ==
  [bk EXCEPT !.status = "CONFIRMED", !.paymentStatus = "COMPLETED",
             !.paymentId = PaymentId, !.paymentMethod = m,
             !.reservationExpiresAt = NoTime, !.ticketHash = TRUE]

\* The payment succeeds (the charge), the QR code is made, booking.update,
\* commit, res.json.  The email and the analytics broadcast run afterwards in
\* setImmediate inside their own try/catch and change nothing here, whether
\* they fail or not.  No Seat row is written.
ClassConfirmCommit(p) ==
  /\ proc[p].pc = "kc_pay"
  /\ LET b == proc[p].bk IN
     /\ charged' = [charged EXCEPT ![b] = @ + 1]
     /\ bookings' = [bookings EXCEPT ![b] = ClassConfirmedBooking(@, proc[p].method)]
     /\ Answered(p, "classConfirmBooking", b, 200)
  /\ UNCHANGED <<now, seats, rowLock, event, locks>>

----------------------------------------------------------------------------
(* cancelBooking (reservation flow) *)

\* Booking.prototype.canBeCancelled.  The booking is loaded with its event
\* under the alias 'event', so this.Event is undefined and the CONFIRMED
\* branch falls through to the last line.
CanBeCancelled(status) ==
  IF status = "CANCELLED" \/ status = "EXPIRED" THEN FALSE
  ELSE status = "RESERVED"

\* Booking.prototype.calculateRefundAmount, with this.Event undefined.
CalculateRefundAmount(status, totalAmount) ==
  IF ~CanBeCancelled(status) THEN 0 ELSE totalAmount \div 2

CancelBegin(p, u, b) ==
  /\ Accepts(p)
  /\ IF ~(b <= Len(bookings) /\ bookings[b].userId = u)
     THEN Answered(p, "cancelBooking", b, 404)
     ELSE IF ~CanBeCancelled(bookings[b].status)
     THEN Answered(p, "cancelBooking", b, 400)
     ELSE /\ proc' = [proc EXCEPT ![p] =
                        [IdleProc EXCEPT !.pc = "cn_txn", !.op = "cancelBooking",
                                         !.user = u, !.bk = b, !.ev = <<event>>]]
          /\ last' = NoAnswer
  /\ UNCHANGED <<now, seats, rowLock, bookings, event, locks, charged>>

\* The instance is the one CancelBegin read: its status was RESERVED (the only
\* one canBeCancelled lets through), its other fields read here are never
\* written after Booking.create.  booking.update sets the instance's status to
\* CANCELLED before the branch on booking.status is taken: of a SEAT_SELECTION
\* booking no seat is released, of any other the tickets are added to the
\* event instance read with the booking.
CancelCommit(p) ==
  /\ proc[p].pc = "cn_txn"
  /\ LET r == proc[p]
         b == r.bk
     IN
     /\ bookings' = [bookings EXCEPT ![b] =
                       [@ EXCEPT !.status = "CANCELLED", !.cancelledAt = now,
                                 !.refundAmount =
                                    CalculateRefundAmount("RESERVED", bookings[b].totalAmount)]]
     /\ event' = IF bookings[b].bookingType = "SEAT_SELECTION" THEN event
                 ELSE [event EXCEPT !.availableSeats =
                                      r.ev[1].availableSeats + bookings[b].ticketCount]
     /\ Answered(p, "cancelBooking", b, 200)
  /\ UNCHANGED <<now, seats, rowLock, locks, charged>>

----------------------------------------------------------------------------
(* The sweep *)

ExpiredReservations ==
  {b \in 1..Len(bookings) :
     bookings[b].status = "RESERVED" /\ bookings[b].reservationExpiresAt < now}

\* Booking.cleanupExpiredReservations
BookingCleanup ==
  /\ ExpiredReservations # {}
  /\ bookings' = [b \in 1..Len(bookings) |->
                    IF b \in ExpiredReservations
                    THEN [bookings[b] EXCEPT !.status = "EXPIRED", !.expiredAt = now]
                    ELSE bookings[b]]
  /\ last' = NoAnswer
  /\ UNCHANGED <<now, seats, rowLock, event, locks, proc, charged>>

ExpiredSeats ==
  {s \in Seats : seats[s].isReserved /\ seats[s].reserveExpiresAt < now /\ ~seats[s].isBooked}

\* Seat.cleanupExpiredReservations
SeatCleanup ==
  /\ ExpiredSeats # {}
  /\ \A s \in ExpiredSeats : rowLock[s] = 0
  /\ seats' = [s \in Seats |->
                 IF s \in ExpiredSeats
                 THEN [seats[s] EXCEPT !.isReserved = FALSE, !.reservedBy = NoUser,
                                       !.reserveExpiresAt = NoTime, !.version = @ + 1]
                 ELSE seats[s]]
  /\ last' = NoAnswer
  /\ UNCHANGED <<now, rowLock, bookings, event, locks, proc, charged>>

----------------------------------------------------------------------------
Sweeps == BookingCleanup \/ SeatCleanup

ReserveSteps ==
  \/ \E p \in Procs, u \in Users, sel \in Selections :
        ReserveBegin(p, u, "SEAT_SELECTION", sel, 0)
  \/ \E p \in Procs : ReserveAcquire(p)
  \/ \E p \in Procs : ReserveSeatsTxn(p)
  \/ \E p \in Procs : ReserveCommit(p)

ConfirmSteps ==
  \/ \E p \in Procs, u \in Users, b \in BookingIds : ConfirmBegin(p, u, b, "CARD")
  \/ \E p \in Procs : ConfirmAcquire(p)
  \/ \E p \in Procs : ConfirmPaymentFails(p)
  \/ \E p \in Procs : ConfirmCommit(p)

CancelSteps ==
  \/ \E p \in Procs, u \in Users, b \in BookingIds : CancelBegin(p, u, b)
  \/ \E p \in Procs : CancelCommit(p)

\* General admission: tickets counted on the event row.
TicketCounts == 1..Capacity

CapacitySteps ==
  \/ \E p \in Procs, u \in Users, cnt \in TicketCounts :
        ReserveBegin(p, u, "GENERAL", {}, cnt)
  \/ \E p \in Procs : ReserveAcquire(p)
  \/ \E p \in Procs : ReserveCapacityTxn(p)
  \/ \E p \in Procs, u \in Users, cnt \in TicketCounts : CreateBegin(p, u, cnt)
  \/ \E p \in Procs : CreateAcquire(p)
  \/ \E p \in Procs : CreateTxn(p)

NextCapacity == Tick \/ CapacitySteps \/ CancelSteps \/ BookingCleanup

SpecCapacity == Init /\ [][NextCapacity]_vars

\* Calls made by the owner of an existing booking.
OwnerConfirmSteps ==
  \/ \E p \in Procs, b \in 1..Len(bookings) :
        ConfirmBegin(p, bookings[b].userId, b, "CARD")
  \/ \E p \in Procs : ConfirmAcquire(p)
  \/ \E p \in Procs : ConfirmPaymentFails(p)
  \/ \E p \in Procs : ConfirmCommit(p)

OwnerCancelSteps ==
  \/ \E p \in Procs, b \in 1..Len(bookings) : CancelBegin(p, bookings[b].userId, b)
  \/ \E p \in Procs : CancelCommit(p)

\* Concurrent seat reservations, the clock and the sweep.
NextReserve == Tick \/ ReserveSteps \/ Sweeps

SpecReserve == Init /\ [][NextReserve]_vars

\* Seat reservation and confirmation, the clock and the sweep.
Next == Tick \/ ReserveSteps \/ ConfirmSteps \/ Sweeps

Spec == Init /\ [][Next]_vars

\* The life of a booking: reserved, confirmed, cancelled, swept.
NextLifecycle ==
  Tick \/ ReserveSteps \/ OwnerConfirmSteps \/ OwnerCancelSteps \/ BookingCleanup

SpecLifecycle == Init /\ [][NextLifecycle]_vars

\* confirmBooking and cancelBooking called by any user for any booking id.
NextOwnership == Tick \/ ReserveSteps \/ ConfirmSteps \/ CancelSteps

SpecOwnership == Init /\ [][NextOwnership]_vars

\* Bookings reserved, confirmed and cancelled by their owners, for an event
\* at each distance.
NextRefund == Tick \/ ReserveSteps \/ OwnerConfirmSteps \/ OwnerCancelSteps

SpecRefund == InitDated /\ [][NextRefund]_vars

BookSteps ==
  \/ \E p \in Procs, u \in Users, sel \in Selections : BookBegin(p, u, sel)
  \/ \E p \in Procs : BookAcquire(p)
  \/ \E p \in Procs : BookTxn(p)

\* confirmBooking by the booking's owner with each payment method.
PaidConfirmSteps ==
  \/ \E p \in Procs, b \in 1..Len(bookings), m \in Methods :
        ConfirmBegin(p, bookings[b].userId, b, m)
  \/ \E p \in Procs : ConfirmAcquire(p)
  \/ \E p \in Procs : ConfirmPaymentFails(p)
  \/ \E p \in Procs : ConfirmCommit(p)

NextConfirm == Tick \/ ReserveSteps \/ PaidConfirmSteps \/ Sweeps

SpecConfirm == Init /\ [][NextConfirm]_vars

ClassConfirmSteps ==
  \/ \E p \in Procs, u \in Users, b \in BookingIds :
        ClassConfirmBegin(p, u, b, "CARD")
  \/ \E p \in Procs : ClassConfirmPaymentFails(p)
  \/ \E p \in Procs : ClassConfirmArtifactFails(p)
  \/ \E p \in Procs : ClassConfirmCommit(p)

\* Seats reserved, and confirmed by the class flow.
NextClass == Tick \/ ReserveSteps \/ ClassConfirmSteps

SpecClass == Init /\ [][NextClass]_vars

\* Seats reserved and confirmed, and seats booked directly.
NextDirect == Tick \/ ReserveSteps \/ OwnerConfirmSteps \/ BookSteps \/ Sweeps

SpecDirect == Init /\ [][NextDirect]_vars

\* A handler that has begun goes on to its end, and the clock goes on.  The
\* two cleanups are called from nowhere in the program: nothing makes them run.
Continues(p) ==
  \/ ReserveAcquire(p) \/ ReserveSeatsTxn(p) \/ ReserveCommit(p)
  \/ ConfirmAcquire(p) \/ ConfirmPaymentFails(p) \/ ConfirmCommit(p)

Fairness == WF_vars(Tick) /\ \A p \in Procs : WF_vars(Continues(p))

SpecFair == Spec /\ Fairness

\* Both kinds of reservation on one event, and a sweep that does run.
SweepSteps ==
  \/ \E p \in Procs, u \in Users, sel \in Selections :
        ReserveBegin(p, u, "SEAT_SELECTION", sel, 0)
  \/ \E p \in Procs, u \in Users, cnt \in TicketCounts :
        ReserveBegin(p, u, "GENERAL", {}, cnt)
  \/ \E p \in Procs : ReserveAcquire(p)
  \/ \E p \in Procs : ReserveSeatsTxn(p)
  \/ \E p \in Procs : ReserveCommit(p)
  \/ \E p \in Procs : ReserveCapacityTxn(p)

NextSweep == Tick \/ SweepSteps \/ Sweeps

SweepFairness ==
  /\ WF_vars(Tick)
  /\ WF_vars(BookingCleanup)
  /\ WF_vars(SeatCleanup)
  /\ \A p \in Procs : WF_vars(Continues(p) \/ ReserveCapacityTxn(p))

SpecSweep == Init /\ [][NextSweep]_vars /\ SweepFairness

----------------------------------------------------------------------------
(* Properties *)

Booked == 1..Len(bookings)

\* A hold that confirmBooking would still take: RESERVED and not past its
\* reservationExpiresAt.
Live(b) ==
  /\ bookings[b].status = "RESERVED"
  /\ now <= bookings[b].reservationExpiresAt

HoldersOf(s) == {b \in Booked : Live(b) /\ s \in bookings[b].seatIds}

RECURSIVE SeatsHeld(_)
SeatsHeld(B) ==
  IF B = {} THEN 0
  ELSE LET b == CHOOSE x \in B : TRUE
       IN Cardinality(bookings[b].seatIds) + SeatsHeld(B \ {b})

\* C1: under concurrent reserveSeats calls in seat mode the seats held by the
\* accepted bookings never number more than the seats there are, and no seat
\* is in the hold of two bookings at once.
C1_NoSeatHeldTwice ==
  /\ SeatsHeld({b \in Booked : Live(b)}) <= Cardinality(Seats)
  /\ \A s \in Seats : Cardinality(HoldersOf(s)) <= 1

RECURSIVE Tickets(_)
Tickets(B) ==
  IF B = {} THEN 0
  ELSE LET b == CHOOSE x \in B : TRUE
       IN bookings[b].ticketCount + Tickets(B \ {b})

\* The accepted bookings that still count against the capacity.
Active(b) == Live(b) \/ bookings[b].status \in {"PENDING", "CONFIRMED"}

\* C2: in capacity mode availableSeats never goes below zero and the tickets
\* of the accepted, still active bookings never sum above the capacity.
C2_NoOversell ==
  /\ event.availableSeats >= 0
  /\ Tickets({b \in Booked : Active(b)}) <= Capacity

\* The seat carries a hold that has not run out.
SeatOnHold(s) == seats[s].isReserved /\ seats[s].reserveExpiresAt >= now

C4_ChargedOnce == \A b \in BookingIds : charged[b] <= 1

\* C5: once confirmBooking has succeeded for a booking, every confirmBooking
\* call made afterwards for it is answered 404 at once: no handler goes on to
\* the payment, and no booking, seat, event or charge changes.
C5_SecondConfirmRejected ==
  [][\A b \in BookingIds :
       (charged[b] >= 1 /\ last'.op = "confirmBooking" /\ last'.bk = b
          /\ \A p \in Procs : proc[p].op # "confirmBooking" \/ proc[p].bk # b)
       => /\ last'.resp = 404
          /\ UNCHANGED <<store, charged, proc>>]_vars

\* A confirmed and paid booking, and a confirmBooking call for it answered 404.
C5_Witness ==
  /\ last.op = "confirmBooking" /\ last.resp = 404
  /\ last.bk \in Booked
  /\ charged[last.bk] = 1
  /\ bookings[last.bk].status = "CONFIRMED"

Held == {"RESERVED", "PENDING"}

\* The edges HELD -> CONFIRMED, CANCELLED, EXPIRED and CONFIRMED -> CANCELLED.
Transitions ==
  (Held \X {"CONFIRMED", "CANCELLED", "EXPIRED"}) \cup {<<"CONFIRMED", "CANCELLED">>}

\* C6: the status of a booking changes only along HELD -> CONFIRMED,
\* HELD -> CANCELLED, HELD -> EXPIRED and CONFIRMED -> CANCELLED.
C6_TransitionGraph ==
  [][\A b \in Booked :
       bookings'[b].status # bookings[b].status
       => <<bookings[b].status, bookings'[b].status>> \in Transitions]_vars

\* C7: no booking becomes CONFIRMED after its reservationExpiresAt has
\* passed.
C7_NoConfirmAfterExpiry ==
  [][\A b \in Booked :
       (bookings[b].status # "CONFIRMED" /\ bookings'[b].status = "CONFIRMED")
       => now <= bookings[b].reservationExpiresAt]_vars

\* C10: whatever the interleaving of confirmBooking with the expiry and with
\* the reserveSeats calls of others, each seat of a CONFIRMED booking is booked
\* for that booking and its owner, and is in no other booking that is live or
\* CONFIRMED.
C10_ConfirmedSeatsOwned ==
  \A b \in Booked :
    bookings[b].status = "CONFIRMED" =>
      \A s \in bookings[b].seatIds :
        /\ seats[s].isBooked
        /\ seats[s].bookedBy = bookings[b].userId
        /\ seats[s].bookingId = b
        /\ \A c \in Booked \ {b} : s \in bookings[c].seatIds => ~Active(c)

\* What a booking held is free again: none of its seats carries a hold that
\* has run out, and its tickets are back in availableSeats.
UnitsReleased(b) ==
  IF bookings[b].bookingType = "SEAT_SELECTION"
  THEN \A s \in bookings[b].seatIds :
         ~(seats[s].isReserved /\ seats[s].reserveExpiresAt < now)
  ELSE event.availableSeats
         + Tickets({c \in Booked : bookings[c].bookingType # "SEAT_SELECTION" /\ Active(c)})
       >= Capacity

Expired(b) ==
  /\ b \in Booked
  /\ bookings[b].status = "EXPIRED"
  /\ bookings[b].expiredAt # NoTime
  /\ UnitsReleased(b)

\* C8: a booking for which confirmBooking answered 410 does not stay
\* RESERVED: it becomes EXPIRED and what it held is released.
C8_GoneLeadsToExpired ==
  \A b \in BookingIds : (last = Answer("confirmBooking", b, 410, {})) ~> Expired(b)

\* C9: every RESERVED booking whose reservationExpiresAt is behind the clock
\* becomes EXPIRED, with expiredAt stamped and what it held released, by the
\* sweep alone.
C9_SweepExpires ==
  \A b \in BookingIds :
    (b \in Booked /\ bookings[b].status = "RESERVED"
       /\ bookings[b].reservationExpiresAt < now) ~> Expired(b)

\* C11: of booked, reserved with a hold that has not run out, and blocked, a
\* seat is at most one at any time.
C11_OneSeatState ==
  \A s \in Seats :
    /\ ~(seats[s].isBooked /\ SeatOnHold(s))
    /\ ~(seats[s].isBooked /\ seats[s].isBlocked)
    /\ ~(SeatOnHold(s) /\ seats[s].isBlocked)

\* C12: a seat becomes booked only in a step in which confirmBooking succeeds
\* for the booking that holds it (the seat is among the booking's seats and is
\* reserved by the booking's user), and a reserved seat becomes free again
\* only by the expiry of its hold.
C12_BookedOnlyByConfirm ==
  [][\A s \in Seats :
       /\ (~seats[s].isBooked /\ seats'[s].isBooked)
            => /\ last'.op = "confirmBooking"
               /\ last'.resp = 200
               /\ s \in bookings[last'.bk].seatIds
               /\ seats[s].isReserved
               /\ seats[s].reservedBy = bookings[last'.bk].userId
       /\ (seats[s].isReserved /\ ~seats'[s].isReserved /\ ~seats'[s].isBooked)
            => seats[s].reserveExpiresAt < now]_vars

ActiveHoldsOf(u) ==
  {b \in Booked : /\ bookings[b].userId = u
                  /\ bookings[b].status = "RESERVED"
                  /\ bookings[b].reservationExpiresAt > now}

\* C13: a user has at most one RESERVED booking whose hold has not run out,
\* whatever the interleaving of the user's reserveSeats requests.
C13_OneActiveHoldPerUser ==
  \A u \in Users : Cardinality(ActiveHoldsOf(u)) <= 1

\* The request has acquired the event-level lock of reserveSeats and has not
\* answered yet: it is in its reservation transaction.
InReservation(p) == proc[p].pc \in {"rs_seats", "rs_create", "rs_cap"}

\* C14: the event-level lock has one holder at a time: while a request that
\* acquired it is still in its reservation transaction, no other request has
\* acquired the same lock.
C14_OneLockHolder ==
  \A p, q \in Procs : (p # q /\ InReservation(p)) => ~InReservation(q)

\* C15: when a reserveSeats request that acquired the event lock answers, by
\* whichever path, the key no longer carries the value this request stored.
C15_LockGoneAtReturn ==
  [][\A p \in Procs :
       (InReservation(p) /\ proc'[p].pc = "idle")
         => locks'[<<"event_booking", 0>>].value # proc[p].lk]_vars

\* The event lock a request waiting at its acquire step asks for.
EventLockOf(p) ==
  IF proc[p].pc = "rs_lock" THEN <<"event_booking", 0>> ELSE <<"event", 0>>

\* C16: a reservation request (reserveSeats, createBooking) that finds its
\* event lock held is answered with the retryable lock-contention rejection,
\* 429, and leaves seats, bookings and event as they were.
C16_ContentionIsRetryable ==
  [][\A p \in Procs :
       (/\ proc[p].pc \in {"rs_lock", "cb_lock"}
        /\ ~LockFree(EventLockOf(p))
        /\ proc'[p].pc = "idle")
         => (last'.resp = 429 /\ UNCHANGED store)]_vars

\* The requested seats that are booked or on a hold that has not run out.
Unavailable(sel) == {s \in sel : seats[s].isBooked \/ SeatOnHold(s)}

\* C17: a reserveSeats request that does not find all its seats available is
\* answered 409 with exactly its unavailable seats listed, leaves seats,
\* bookings and event as they were, holds no row afterwards and has released
\* its event lock.
C17_ConflictListsUnavailable ==
  [][\A p \in Procs :
       (proc[p].pc = "rs_seats" /\ proc'[p].pc = "idle")
         => /\ last'.resp = 409
            /\ last'.unavailable = Unavailable(proc[p].sel)
            /\ last'.unavailable # {}
            /\ UNCHANGED <<store, rowLock>>
            /\ locks'[<<"event_booking", 0>>].value # proc[p].lk]_vars

\* The seat is not booked, not blocked, and not reserved, or its reservation
\* has run out, or it is reserved by user u.
Acceptable(s, u) ==
  /\ ~seats[s].isBooked
  /\ ~seats[s].isBlocked
  /\ \/ ~seats[s].isReserved
     \/ seats[s].reserveExpiresAt < now
     \/ seats[s].reservedBy = u

\* C18: the seat select of reserveSeats takes a requested seat exactly when
\* the seat is not booked, not blocked, and not reserved or reserved with a
\* hold that has run out or reserved by the requesting user: the request goes
\* on when all its seats are such, and is otherwise answered with the others
\* listed.
C18_AcceptsIffAcceptable ==
  [][\A p \in Procs :
       (proc[p].pc = "rs_seats" /\ proc'[p].pc # "rs_seats")
         => LET refused == {s \in proc[p].sel : ~Acceptable(s, proc[p].user)}
            IN IF refused = {}
               THEN proc'[p].pc = "rs_create"
               ELSE last'.resp = 409 /\ last'.unavailable = refused]_vars

\* C19: a confirmBooking whose payment fails is answered 400, leaves the
\* booking, the seats and the event counter as they were, charges nothing and
\* has released its booking-level lock.
C19_PaymentFailureChangesNothing ==
  [][\A p \in Procs :
       (proc[p].pc = "cf_pay" /\ last'.op = "confirmBooking" /\ last'.resp = 400
          /\ proc'[p].pc = "idle")
         => /\ UNCHANGED <<store, rowLock, charged>>
            /\ locks'[<<"booking_confirm", proc[p].bk>>].value # proc[p].lk]_vars

\* C20: the step in which confirmBooking succeeds leaves the booking
\* CONFIRMED with paymentStatus COMPLETED, a payment id and the request's
\* payment method stored, reservationExpiresAt cleared and confirmedAt
\* stamped, and every seat of the booking booked, not reserved, with its
\* reservation fields cleared, bookedAt stamped and its version one higher.
C20_ConfirmedState ==
  [][\A p \in Procs :
       (proc[p].pc = "cf_pay" /\ proc'[p].pc = "idle" /\ last'.resp = 200)
         => LET b == proc[p].bk IN
            /\ bookings'[b].status = "CONFIRMED"
            /\ bookings'[b].paymentStatus = "COMPLETED"
            /\ bookings'[b].paymentId # NoPayment
            /\ bookings'[b].paymentMethod = proc[p].method
            /\ bookings'[b].reservationExpiresAt = NoTime
            /\ bookings'[b].confirmedAt = now
            /\ \A s \in bookings[b].seatIds :
                 /\ seats'[s].isBooked
                 /\ ~seats'[s].isReserved
                 /\ seats'[s].reservedBy = NoUser
                 /\ seats'[s].reserveExpiresAt = NoTime
                 /\ seats'[s].bookedAt = now
                 /\ seats'[s].version = seats[s].version + 1]_vars

\* A confirmBooking has just succeeded for a booking of two seats paid by UPI.
C20_Witness ==
  /\ last.op = "confirmBooking"
  /\ last.resp = 200
  /\ bookings[last.bk].seatIds = {"s1", "s2"}
  /\ bookings[last.bk].paymentMethod = "UPI"
  /\ \A s \in Seats : seats[s].isBooked /\ seats[s].version = 2

\* C21: once the payment of a confirmation has succeeded, the booking becomes
\* CONFIRMED in that call and the caller is answered 200, whatever happens to
\* the ticket artifact and to the notification.
C21_PaidMeansConfirmed ==
  [][\A b \in BookingIds :
       charged'[b] > charged[b]
         => (bookings'[b].status = "CONFIRMED" /\ last'.resp = 200)]_vars

\* The seats of booking b that are reserved by or booked for its user.
UnitsOf(b) ==
  {s \in bookings[b].seatIds :
     \/ seats[s].isReserved /\ seats[s].reservedBy = bookings[b].userId
     \/ seats[s].isBooked /\ seats[s].bookedBy = bookings[b].userId}

\* C22: the step in which cancelBooking succeeds leaves every seat the
\* booking held neither reserved nor booked, with its version one higher.
C22_CancelReleasesUnits ==
  [][\A b \in BookingIds :
       (last'.op = "cancelBooking" /\ last'.resp = 200 /\ last'.bk = b)
         => \A s \in UnitsOf(b) :
              /\ ~seats'[s].isReserved
              /\ ~seats'[s].isBooked
              /\ seats'[s].version = seats[s].version + 1]_vars

\* (new Date(eventTime) - new Date()) in hours.
HoursUntilEvent == event.dateTime - now

\* The booking is RESERVED, or CONFIRMED with the event more than 24 hours
\* away.
Cancellable(b) ==
  \/ bookings[b].status = "RESERVED"
  \/ bookings[b].status = "CONFIRMED" /\ HoursUntilEvent > 24

\* C23: a cancelBooking call by the owner of a booking is accepted exactly
\* when the booking is RESERVED, or CONFIRMED with the event more than 24
\* hours away; a call that is turned away changes nothing.
C23_CancellableIff ==
  [][\A p \in Procs, b \in Booked :
       /\ (proc[p].pc = "idle" /\ proc'[p].pc = "cn_txn" /\ proc'[p].bk = b)
            => Cancellable(b)
       /\ (proc[p].pc = "idle" /\ last'.op = "cancelBooking" /\ last'.bk = b
              /\ last'.resp = 400 /\ proc' = proc)
            => (~Cancellable(b) /\ UNCHANGED <<store, charged>>)]_vars

\* C24: cancelBooking of a CONFIRMED booking by its owner is turned away only
\* when the event is 24 hours away or less (the event 12 hours away), and when
\* it succeeds the refund recorded is the whole totalAmount with the event
\* more than 7 days away (30 days) and 80% of it otherwise (3 days).
C24_ConfirmedRefund ==
  [][\A b \in Booked :
       (bookings[b].status = "CONFIRMED" /\ last'.op = "cancelBooking" /\ last'.bk = b)
         => /\ last'.resp \in {200, 400}
            /\ last'.resp = 400 => HoursUntilEvent <= 24
            /\ last'.resp = 200 =>
                 bookings'[b].refundAmount =
                   IF HoursUntilEvent > 168 THEN bookings[b].totalAmount
                   ELSE (bookings[b].totalAmount * 8) \div 10]_vars

\* C25: a cancelBooking that succeeds on a booking that is RESERVED, never
\* confirmed and never charged, records a refundAmount of 0.
C25_NoRefundForHeld ==
  [][\A b \in Booked :
       (/\ bookings[b].status = "RESERVED"
        /\ charged[b] = 0
        /\ last'.op = "cancelBooking" /\ last'.bk = b /\ last'.resp = 200)
         => bookings'[b].refundAmount = 0]_vars

\* C26: a booking has a reservationExpiresAt exactly while it is RESERVED;
\* confirmed, cancelled and expired bookings have none.
C26_ExpiryIffHeld ==
  \A b \in Booked :
    bookings[b].reservationExpiresAt # NoTime <=> bookings[b].status = "RESERVED"

\* C27: a step that changes whether a seat is booked or reserved, or who
\* holds it, raises the seat's version, and no step lowers a version.
C27_VersionCountsMutations ==
  [][\A s \in Seats :
       /\ seats'[s].version >= seats[s].version
       /\ (\/ seats'[s].isBooked # seats[s].isBooked
           \/ seats'[s].isReserved # seats[s].isReserved
           \/ seats'[s].reservedBy # seats[s].reservedBy
           \/ seats'[s].bookedBy # seats[s].bookedBy)
            => seats'[s].version > seats[s].version]_vars

\* C28: confirmBooking and cancelBooking never get past their lookup for a
\* user who does not own the booking, and the 404 they answer leaves
\* bookings, seats, event and charges as they were.
C28_OnlyOwnerActs ==
  [][/\ \A p \in Procs :
          proc'[p].op \in {"confirmBooking", "cancelBooking"}
            => (proc'[p].bk \in Booked /\ bookings[proc'[p].bk].userId = proc'[p].user)
     /\ (last'.op \in {"confirmBooking", "cancelBooking"} /\ last'.resp = 404)
          => UNCHANGED <<store, charged>>]_vars

\* cancelBooking has just answered 404 for a booking that exists, is RESERVED
\* and holds its seat: the caller was not its owner.
C28_Witness ==
  /\ last.op = "cancelBooking"
  /\ last.resp = 404
  /\ last.bk \in Booked
  /\ bookings[last.bk].status = "RESERVED"
  /\ \E s \in bookings[last.bk].seatIds : SeatOnHold(s)

\* C29: a RESERVED booking whose hold time has elapsed ends EXPIRED.
C29_ElapsedHoldExpires ==
  \A b \in BookingIds :
    (b \in Booked /\ bookings[b].status = "RESERVED"
       /\ bookings[b].reservationExpiresAt < now)
      ~> (b \in Booked /\ bookings[b].status = "EXPIRED")

\* C30: no step changes the totalAmount of a booking that exists: confirm,
\* cancel and expiry leave it as Booking.create set it.
C30_TotalAmountFixed ==
  [][\A b \in Booked : bookings'[b].totalAmount = bookings[b].totalAmount]_vars

\* One booking has been confirmed and another cancelled, and each still
\* carries the price of its seats.
C30_Witness ==
  /\ \E b \in Booked : bookings[b].status = "CONFIRMED"
  /\ \E b \in Booked : bookings[b].status = "CANCELLED"
  /\ \A b \in Booked : /\ bookings[b].totalAmount = SumPrice(bookings[b].seatIds)
                        /\ bookings[b].totalAmount > 0

----------------------------------------------------------------------------
(* selectSeats (class flow): a booking carries its seat numbers, there are
   no Seat rows.  Every request names row A. *)

Sections == {"PREMIUM", "SILVER"}
SeatNumbers == {"A1", "A2"}
\* The seat numbers a request may name (Joi: at least one): they overlap in A1.
NumberSelections == {{"A1"}, {"A1", "A2"}}

\* The multipliers of getSeatPrice, in tenths.
Multiplier(section) ==
  IF section = "PREMIUM" THEN 15 ELSE IF section = "GOLD" THEN 12 ELSE 10

\* getSeatPrice: the price the seat map shows for a seat of the section.
GetSeatPrice(section, basePrice) == (basePrice * Multiplier(section)) \div 10

\* The bookings checkSeatAvailability reads: CONFIRMED, SEAT_SELECTED or
\* RESERVED in the section, with no reservationExpiresAt or one in the future.
ActiveSeatBookings(section) ==
  {b \in 1..Len(bookings) :
     /\ bookings[b].seatSection = section
     /\ bookings[b].status \in {"CONFIRMED", "SEAT_SELECTED", "RESERVED"}
     /\ \/ bookings[b].reservationExpiresAt = NoTime
        \/ bookings[b].reservationExpiresAt > now}

\* checkSeatAvailability: the requested numbers some such booking contains.
CheckSeatAvailability(numbers, section) ==
  {n \in numbers : \E b \in ActiveSeatBookings(section) : n \in bookings[b].seatNumbers}

\* Event.findByPk and checkSeatAvailability, before any transaction and
\* under no lock: 409 with the unavailable seats, or on to Booking.create.
SelectBegin(p, u, section, numbers) ==
  /\ Accepts(p)
  /\ Len(bookings) + Cardinality(Creating) < MaxBookings
  /\ LET unavailableSeats == CheckSeatAvailability(numbers, section) IN
     IF unavailableSeats # {}
     THEN /\ proc' = [proc EXCEPT ![p] = IdleProc]
          /\ last' = Answer("selectSeats", 0, 409, unavailableSeats)
     ELSE /\ proc' = [proc EXCEPT ![p] =
                        [IdleProc EXCEPT !.pc = "ss_create", !.op = "selectSeats",
                                         !.user = u, !.section = section,
                                         !.numbers = numbers]]
          /\ last' = NoAnswer
  /\ UNCHANGED <<now, seats, rowLock, bookings, event, locks, charged>>

\* Booking.create of the class flow: event.price for every seat, whatever
\* the section.
SelectedBooking(u, section, numbers) ==
  [NewBooking(u, "SEAT_SELECTION", {}, Cardinality(numbers),
              EventPrice * Cardinality(numbers), "SEAT_SELECTED", now + HoldDuration)
     EXCEPT !.seatNumbers = numbers, !.seatSection = section]

\* Booking.create, scheduleExpiry (a timer for the hold's end), commit, 201.
SelectCommit(p) ==
  /\ proc[p].pc = "ss_create"
  /\ LET r == proc[p] IN
     /\ bookings' = Append(bookings,
                      [SelectedBooking(r.user, r.section, r.numbers)
                         EXCEPT !.expiryTimer = now + HoldDuration])
     /\ Answered(p, "selectSeats", Len(bookings) + 1, 201)
  /\ UNCHANGED <<now, seats, rowLock, event, locks, charged>>

\* The setTimeout callback of scheduleExpiry: Booking.update to EXPIRED where
\* the status is SEAT_SELECTED or RESERVED.
ExpiryTimer(b) ==
  /\ b <= Len(bookings)
  /\ bookings[b].expiryTimer # NoTime
  /\ now >= bookings[b].expiryTimer
  /\ bookings' = [bookings EXCEPT
                    ![b].status = IF @ \in {"SEAT_SELECTED", "RESERVED"}
                                  THEN "EXPIRED" ELSE @,
                    ![b].expiryTimer = NoTime]
  /\ last' = NoAnswer
  /\ UNCHANGED <<now, seats, rowLock, event, locks, proc, charged>>

SelectSteps ==
  \/ \E p \in Procs, u \in Users, section \in Sections, numbers \in NumberSelections :
        SelectBegin(p, u, section, numbers)
  \/ \E p \in Procs : SelectCommit(p)
  \/ \E b \in BookingIds : ExpiryTimer(b)

\* Bookings made in each of the ways: seats of the reservation flow, general
\* admission, seat numbers of the class flow.
NextPricing == Tick \/ ReserveSteps \/ CapacitySteps \/ SelectSteps

SpecPricing == Init /\ [][NextPricing]_vars

\* The price of what a booking holds: its Seat rows' prices, the seat map's
\* price for each of its seat numbers, or the event's price for each ticket.
PriceOf(bk) ==
  IF bk.seatNumbers # {}
  THEN GetSeatPrice(bk.seatSection, EventPrice) * Cardinality(bk.seatNumbers)
  ELSE IF bk.bookingType = "SEAT_SELECTION" THEN SumPrice(bk.seatIds)
  ELSE EventPrice * bk.ticketCount

\* C31: a booking is created with totalAmount equal to the sum of the prices
\* of its seats in seat mode, and to the event's price times its ticket count
\* in capacity mode.
C31_TotalIsPriceOfSeats ==
  [][Len(bookings') = Len(bookings) + 1
       => bookings'[Len(bookings')].totalAmount = PriceOf(bookings'[Len(bookings')])]_vars

\* C32: when a seat reservation is answered 201, the booking's
\* reservationExpiresAt is the very instant set as reserveExpiresAt on each of
\* its seats, so that the booking and its seats run out together.
C32_BookingAndSeatsExpireTogether ==
  (last.op = "reserveSeats" /\ last.resp = 201)
    => \A s \in bookings[last.bk].seatIds :
         seats[s].reserveExpiresAt = bookings[last.bk].reservationExpiresAt

----------------------------------------------------------------------------
(* bookingService.selectSeats: the same booking made under the event lock *)

\* Event.findByPk(..., {lock: UPDATE}) waits while another transaction of the
\* service holds the event row.
EventRowLocked(p) ==
  \E q \in Procs \ {p} : proc[q].pc \in {"sv_create", "sc_update"}

\* lock.acquire(`event:${eventId}`, 30000), the TTL of the other event locks;
\* without the lock the service throws.
ServiceSelectBegin(p, u, section, numbers) ==
  /\ Accepts(p)
  /\ Len(bookings) + Cardinality(Creating) < MaxBookings
  /\ LET k == <<"event", 0>> IN
     IF LockFree(k)
     THEN /\ locks' = LockAcquired(k, EventLockTTL)
          /\ proc' = [proc EXCEPT ![p] =
                        [IdleProc EXCEPT !.pc = "sv_check", !.op = "serviceSelectSeats",
                                         !.user = u, !.section = section,
                                         !.numbers = numbers, !.lk = LockValue]]
          /\ last' = NoAnswer
     ELSE /\ locks' = locks
          /\ Answered(p, "serviceSelectSeats", 0, 500)
  /\ UNCHANGED <<now, seats, rowLock, bookings, event, charged>>

\* The event row is locked and checkSeatAvailability run: with a seat
\* unavailable the service throws, rolls back and releases the lock.
ServiceSelectCheck(p) ==
  /\ proc[p].pc = "sv_check"
  /\ ~EventRowLocked(p)
  /\ LET unavailableSeats == CheckSeatAvailability(proc[p].numbers, proc[p].section) IN
     IF unavailableSeats # {}
     THEN /\ locks' = LockReleased(<<"event", 0>>, proc[p].lk)
          /\ proc' = [proc EXCEPT ![p] = IdleProc]
          /\ last' = Answer("serviceSelectSeats", 0, 500, unavailableSeats)
     ELSE /\ locks' = locks
          /\ proc' = [proc EXCEPT ![p].pc = "sv_create"]
          /\ last' = NoAnswer
  /\ UNCHANGED <<now, seats, rowLock, bookings, event, charged>>

\* Booking.create, commit, lock.release; the booking is returned.  No expiry
\* timer is set here.
ServiceSelectCommit(p) ==
  /\ proc[p].pc = "sv_create"
  /\ LET r == proc[p] IN
     /\ bookings' = Append(bookings, SelectedBooking(r.user, r.section, r.numbers))
     /\ locks' = LockReleased(<<"event", 0>>, r.lk)
     /\ Answered(p, "serviceSelectSeats", Len(bookings) + 1, 201)
  /\ UNCHANGED <<now, seats, rowLock, event, charged>>

ServiceSelectSteps ==
  \/ \E p \in Procs, u \in Users, section \in Sections, numbers \in NumberSelections :
        ServiceSelectBegin(p, u, section, numbers)
  \/ \E p \in Procs : ServiceSelectCheck(p)
  \/ \E p \in Procs : ServiceSelectCommit(p)

\* Concurrent seat selections, by the controller and by the service.
NextSelect == Tick \/ SelectSteps \/ ServiceSelectSteps

SpecSelect == Init /\ [][NextSelect]_vars

\* The active bookings of the class flow, as checkSeatAvailability counts them.
ActiveSeatBooking(b) ==
  \E section \in Sections : b \in ActiveSeatBookings(section)

\* C33: whatever the interleaving of selectSeats calls, no two active
\* bookings of one section and row contain the same seat number, and a 201
\* is never given for a seat some other active booking contains.
C33_NoSeatNumberInTwoActiveBookings ==
  \A b1, b2 \in 1..Len(bookings) :
    (/\ b1 # b2
     /\ ActiveSeatBooking(b1) /\ ActiveSeatBooking(b2)
     /\ bookings[b1].seatSection = bookings[b2].seatSection)
      => bookings[b1].seatNumbers \cap bookings[b2].seatNumbers = {}

----------------------------------------------------------------------------
(* bookingService.confirmBooking *)

\* The service is handed a booking; lock.acquire on the event, or it throws.
ServiceConfirmBegin(p, b) ==
  /\ Accepts(p)
  /\ b <= Len(bookings)
  /\ LET k == <<"event", 0>> IN
     IF LockFree(k)
     THEN /\ locks' = LockAcquired(k, EventLockTTL)
          /\ proc' = [proc EXCEPT ![p] =
                        [IdleProc EXCEPT !.pc = "sc_check", !.op = "serviceConfirmBooking",
                                         !.bk = b, !.lk = LockValue]]
          /\ last' = NoAnswer
     ELSE /\ locks' = locks
          /\ Answered(p, "serviceConfirmBooking", b, 500)
  /\ UNCHANGED <<now, seats, rowLock, bookings, event, charged>>

\* The event row is locked and checkSeatAvailability run with the booking's
\* own seat numbers, section and row: the query leaves no booking out, the
\* one being confirmed included.
ServiceConfirmCheck(p) ==
  /\ proc[p].pc = "sc_check"
  /\ ~EventRowLocked(p)
  /\ LET b == proc[p].bk
         unavailableSeats ==
           CheckSeatAvailability(bookings[b].seatNumbers, bookings[b].seatSection)
     IN
     IF unavailableSeats # {}
     THEN /\ locks' = LockReleased(<<"event", 0>>, proc[p].lk)
          /\ proc' = [proc EXCEPT ![p] = IdleProc]
          /\ last' = Answer("serviceConfirmBooking", b, 500, unavailableSeats)
     ELSE /\ locks' = locks
          /\ proc' = [proc EXCEPT ![p].pc = "sc_update"]
          /\ last' = NoAnswer
  /\ UNCHANGED <<now, seats, rowLock, bookings, event, charged>>

\* booking.update({status: 'CONFIRMED', confirmedAt}), commit, lock.release.
ServiceConfirmCommit(p) ==
  /\ proc[p].pc = "sc_update"
  /\ LET b == proc[p].bk IN
     /\ bookings' = [bookings EXCEPT ![b].status = "CONFIRMED", ![b].confirmedAt = now]
     /\ locks' = LockReleased(<<"event", 0>>, proc[p].lk)
     /\ Answered(p, "serviceConfirmBooking", b, 200)
  /\ UNCHANGED <<now, seats, rowLock, event, charged>>

ServiceConfirmSteps ==
  \/ \E p \in Procs, b \in BookingIds : ServiceConfirmBegin(p, b)
  \/ \E p \in Procs : ServiceConfirmCheck(p)
  \/ \E p \in Procs : ServiceConfirmCommit(p)

\* Seats selected and confirmed through the service.
NextService == Tick \/ ServiceSelectSteps \/ ServiceConfirmSteps

SpecService == Init /\ [][NextService]_vars

\* A SEAT_SELECTED booking whose hold has not run out and whose seats are in
\* no other active booking.
Confirmable(b) ==
  /\ bookings[b].status = "SEAT_SELECTED"
  /\ bookings[b].reservationExpiresAt > now
  /\ \A c \in ActiveSeatBookings(bookings[b].seatSection) \ {b} :
       bookings[c].seatNumbers \cap bookings[b].seatNumbers = {}

\* C34: bookingService.confirmBooking, holding the lock for a SEAT_SELECTED
\* booking with an unexpired hold and seats in no other active booking, does
\* not fail at its availability check: it goes on to set the booking
\* CONFIRMED.
C34_ServiceConfirmSucceeds ==
  [][\A p \in Procs :
       (/\ proc[p].pc = "sc_check"
        /\ proc'[p].pc # "sc_check"
        /\ Confirmable(proc[p].bk))
         => proc'[p].pc = "sc_update"]_vars

----------------------------------------------------------------------------
(* cancelBooking of bookingController.js (general admission) *)

\* Booking.findOne({id, userId}) in the transaction, without a lock, and the
\* test of the status it returns.
TicketCancelBegin(p, u, b) ==
  /\ Accepts(p)
  /\ IF ~(b <= Len(bookings) /\ bookings[b].userId = u)
     THEN Answered(p, "cancelTickets", b, 404)
     ELSE IF bookings[b].status \notin {"PENDING", "CONFIRMED"}
     THEN Answered(p, "cancelTickets", b, 400)
     ELSE /\ proc' = [proc EXCEPT ![p] =
                        [IdleProc EXCEPT !.pc = "tc_lock", !.op = "cancelTickets",
                                         !.user = u, !.bk = b,
                                         !.cnt = bookings[b].ticketCount]]
          /\ last' = NoAnswer
  /\ UNCHANGED <<now, seats, rowLock, bookings, event, locks, charged>>

\* The booking and the event are read again FOR UPDATE, which waits for a
\* transaction holding the rows to end; the status read under the lock is
\* not looked at.  lockedBooking.update, lockedEvent.update with the
\* ticketCount read at first, commit, 200.
TicketCancelCommit(p) ==
  /\ proc[p].pc = "tc_lock"
  /\ LET b == proc[p].bk IN
     /\ bookings' = [bookings EXCEPT ![b].status = "CANCELLED", ![b].cancelledAt = now]
     /\ event' = [event EXCEPT !.availableSeats = @ + proc[p].cnt]
     /\ Answered(p, "cancelTickets", b, 200)
  /\ UNCHANGED <<now, seats, rowLock, locks, charged>>

CreateSteps ==
  \/ \E p \in Procs, u \in Users, cnt \in TicketCounts : CreateBegin(p, u, cnt)
  \/ \E p \in Procs : CreateAcquire(p)
  \/ \E p \in Procs : CreateTxn(p)

TicketCancelSteps ==
  \/ \E p \in Procs, u \in Users, b \in BookingIds : TicketCancelBegin(p, u, b)
  \/ \E p \in Procs : TicketCancelCommit(p)

\* createBooking and cancelBooking of bookingController.js, and the clock.
NextTickets == Tick \/ CreateSteps \/ TicketCancelSteps

SpecTickets == Init /\ [][NextTickets]_vars

\* C35: whatever the interleaving of createBooking and cancelBooking calls,
\* a booking's tickets go back to the event at most once: availableSeats
\* never exceeds the capacity, and availableSeats plus the ticket counts of
\* the PENDING and CONFIRMED bookings is the capacity.
C35_TicketsReturnedOnce ==
  /\ event.availableSeats <= Capacity
  /\ event.availableSeats
       + Tickets({b \in 1..Len(bookings) : bookings[b].status \in {"PENDING", "CONFIRMED"}})
     = Capacity

\* C36: a lock that is held is taken away only by its TTL or by a release
\* whose token is the one stored under the key: a caller whose lock ran out
\* and was acquired anew by another caller never releases that caller's lock.
C36_ReleaseOnlyOwnToken ==
  [][\A k \in LockKeys :
       (~LockFree(k) /\ locks'[k] # locks[k])
         => \/ now' > now /\ locks[k].expiresAt <= now'
            \/ \E p \in Procs : /\ proc[p].lk = locks[k].value
                                 /\ proc[p].pc # "idle"
                                 /\ proc'[p].pc = "idle"]_vars

\* A reserveSeats call has just released and answered while another call,
\* still running, holds the event lock it acquired after the first one's
\* lock had run out.
C36_Witness ==
  LET k == <<"event_booking", 0>> IN
  /\ last.op = "reserveSeats" /\ last.resp = 201
  /\ ~LockFree(k)
  /\ \E q \in Procs : proc[q].op = "reserveSeats" /\ proc[q].lk = locks[k].value

----------------------------------------------------------------------------
(* lock.acquire and lock.release used by a caller that tries again *)

RetryKeys == {<<"event", 0>>, <<"seats", 0>>}

LockWaiters(k) == {q \in Procs : proc[q].pc = "lk_retry" /\ proc[q].key = k}

\* The clock is bounded: a new caller comes while there is time left for the
\* lock to pass to every caller waiting for it, to this one, and to run out.
RoomFor(k) ==
  now + EventLockTTL * (Cardinality(LockWaiters(k)) + (IF LockFree(k) THEN 1 ELSE 2))
    <= MaxTime

\* lock.acquire(resource) with the default ttl of 30000: the lock info, or
\* null, after which the caller will try again.
AcquireLock(p, k) ==
  /\ \/ Accepts(p) /\ RoomFor(k)
     \/ proc[p].pc = "lk_retry" /\ proc[p].key = k
  /\ IF LockFree(k)
     THEN /\ locks' = LockAcquired(k, EventLockTTL)
          /\ proc' = [proc EXCEPT ![p] =
                        [IdleProc EXCEPT !.pc = "lk_held", !.op = "lock", !.key = k,
                                         !.lk = LockValue,
                                         !.retried = (proc[p].pc = "lk_retry")]]
     ELSE /\ locks' = locks
          /\ proc' = [proc EXCEPT ![p] =
                        [IdleProc EXCEPT !.pc = "lk_retry", !.op = "lock", !.key = k]]
  /\ last' = NoAnswer
  /\ UNCHANGED <<now, seats, rowLock, bookings, event, charged>>

\* lock.release(lockInfo.key, lockInfo.value) by the caller that got the lock.
ReleaseLock(p) ==
  /\ proc[p].pc = "lk_held"
  /\ locks' = LockReleased(proc[p].key, proc[p].lk)
  /\ proc' = [proc EXCEPT ![p] = IdleProc]
  /\ last' = NoAnswer
  /\ UNCHANGED <<now, seats, rowLock, bookings, event, charged>>

\* A tick is long: a waiting caller tries again before the clock moves on.
LockTick ==
  /\ \A q \in Procs : proc[q].pc = "lk_retry" => ~LockFree(proc[q].key)
  /\ Tick

NextLock ==
  \/ LockTick
  \/ \E p \in Procs, k \in RetryKeys : AcquireLock(p, k)
  \/ \E p \in Procs : ReleaseLock(p)

\* Redis counts the TTL down, a waiting caller does try again, and a caller
\* that has the lock comes to its release.
LockFairness ==
  /\ WF_vars(LockTick)
  /\ \A p \in Procs :
       /\ WF_vars(proc[p].pc = "lk_retry" /\ \E k \in RetryKeys : AcquireLock(p, k))
       /\ WF_vars(ReleaseLock(p))

SpecLock == Init /\ [][NextLock]_vars /\ LockFairness

----------------------------------------------------------------------------
(* joinWaitlist, leaveWaitlist: the Waitlist rows of the event, in the order
   of their creation *)

WaitlistEntry(u, position) == [userId |-> u, position |-> position, status |-> "WAITING"]

Entries == 1..Len(event.waitlist)

\* Waitlist rows {userId, eventId, status: 'WAITING'}.
WaitingEntriesOf(u) ==
  {e \in Entries : event.waitlist[e].userId = u /\ event.waitlist[e].status = "WAITING"}

Joining == {q \in Procs : proc[q].op = "joinWaitlist"}

\* Waitlist.max('position', {status: 'WAITING'}), null when there is none.
MaxPosition ==
  LET waiting == {e \in Entries : event.waitlist[e].status = "WAITING"} IN
  IF waiting = {} THEN 0
  ELSE CHOOSE m \in {event.waitlist[e].position : e \in waiting} :
         \A e \in waiting : event.waitlist[e].position <= m

\* Event.findByPk and the test that the event is full.
JoinBegin(p, u) ==
  /\ Accepts(p)
  /\ Len(event.waitlist) + Cardinality(Joining) < MaxEntries
  /\ IF event.availableSeats > 0
     THEN Answered(p, "joinWaitlist", 0, 400)
     ELSE /\ proc' = [proc EXCEPT ![p] =
                        [IdleProc EXCEPT !.pc = "jw_find", !.op = "joinWaitlist",
                                         !.user = u]]
          /\ last' = NoAnswer
  /\ UNCHANGED <<now, seats, rowLock, bookings, event, locks, charged>>

\* Waitlist.findOne for a WAITING entry of the user: 409 when there is one.
JoinFind(p) ==
  /\ proc[p].pc = "jw_find"
  /\ IF WaitingEntriesOf(proc[p].user) # {}
     THEN Answered(p, "joinWaitlist", 0, 409)
     ELSE /\ proc' = [proc EXCEPT ![p].pc = "jw_max"]
          /\ last' = NoAnswer
  /\ UNCHANGED <<now, seats, rowLock, bookings, event, locks, charged>>

\* position = (maxPosition || 0) + 1.
JoinMax(p) ==
  /\ proc[p].pc = "jw_max"
  /\ proc' = [proc EXCEPT ![p].pc = "jw_create", ![p].position = MaxPosition + 1]
  /\ last' = NoAnswer
  /\ UNCHANGED <<now, seats, rowLock, bookings, event, locks, charged>>

\* Waitlist.create, commit, 201.
JoinCommit(p) ==
  /\ proc[p].pc = "jw_create"
  /\ event' = [event EXCEPT !.waitlist =
                  Append(@, WaitlistEntry(proc[p].user, proc[p].position))]
  /\ Answered(p, "joinWaitlist", 0, 201)
  /\ UNCHANGED <<now, seats, rowLock, bookings, locks, charged>>

\* Waitlist.findOne for the user's WAITING entry (any of them, were there
\* several) and its position; 404 when there is none.
LeaveBegin(p, u) ==
  /\ Accepts(p)
  /\ IF WaitingEntriesOf(u) = {}
     THEN Answered(p, "leaveWaitlist", 0, 404)
     ELSE /\ \E e \in WaitingEntriesOf(u) :
               proc' = [proc EXCEPT ![p] =
                          [IdleProc EXCEPT !.pc = "lw_update", !.op = "leaveWaitlist",
                                           !.user = u, !.bk = e,
                                           !.position = event.waitlist[e].position]]
          /\ last' = NoAnswer
  /\ UNCHANGED <<now, seats, rowLock, bookings, event, locks, charged>>

\* waitlistEntry.update({status: 'EXPIRED'}), then position - 1 on the
\* WAITING rows whose position is above the one read at first; commit, 200.
LeaveCommit(p) ==
  /\ proc[p].pc = "lw_update"
  /\ LET expired == [event.waitlist EXCEPT ![proc[p].bk].status = "EXPIRED"] IN
     event' = [event EXCEPT !.waitlist =
                 [e \in Entries |->
                    IF expired[e].status = "WAITING" /\ expired[e].position > proc[p].position
                    THEN [expired[e] EXCEPT !.position = @ - 1]
                    ELSE expired[e]]]
  /\ Answered(p, "leaveWaitlist", 0, 200)
  /\ UNCHANGED <<now, seats, rowLock, bookings, locks, charged>>

WaitlistSteps ==
  \/ \E p \in Procs, u \in Users : JoinBegin(p, u)
  \/ \E p \in Procs : JoinFind(p)
  \/ \E p \in Procs : JoinMax(p)
  \/ \E p \in Procs : JoinCommit(p)
  \/ \E p \in Procs, u \in Users : LeaveBegin(p, u)
  \/ \E p \in Procs : LeaveCommit(p)

\* An event that sells out through createBooking, and its waitlist.
NextWaitlist == Tick \/ CreateSteps \/ WaitlistSteps

SpecWaitlist == Init /\ [][NextWaitlist]_vars

Waiting == {e \in Entries : event.waitlist[e].status = "WAITING"}

\* C38: whatever the interleaving of joinWaitlist and leaveWaitlist calls on
\* an event, the positions of its WAITING entries are 1..n, none twice and
\* none missing, and a user has at most one WAITING entry.
C38_PositionsContiguous ==
  /\ \A e1, e2 \in Waiting :
       e1 # e2 => event.waitlist[e1].position # event.waitlist[e2].position
  /\ {event.waitlist[e].position : e \in Waiting} = 1..Cardinality(Waiting)
  /\ \A u \in Users : Cardinality(WaitingEntriesOf(u)) <= 1

----------------------------------------------------------------------------
(* validateTicket, and the cancelBooking of the class flow *)

\* BookingController.cancelBooking: Booking.findOne({id, userId}), then
\* booking.update({status: 'CANCELLED', paymentStatus: 'REFUNDED'}) whatever
\* the status was.
ClassCancelBooking(p, u, b) ==
  /\ Accepts(p)
  /\ IF ~(b <= Len(bookings) /\ bookings[b].userId = u)
     THEN /\ bookings' = bookings
          /\ Answered(p, "classCancelBooking", b, 404)
     ELSE /\ bookings' = [bookings EXCEPT ![b].status = "CANCELLED",
                                          ![b].paymentStatus = "REFUNDED"]
          /\ Answered(p, "classCancelBooking", b, 200)
  /\ UNCHANGED <<now, seats, rowLock, event, locks, charged>>

\* Booking.findOne({ticketHash}): the hash of booking b.  404 without such a
\* booking, 409 when it is qrValidated; else the instance is kept.
ValidateBegin(p, b) ==
  /\ Accepts(p)
  /\ IF ~(b <= Len(bookings) /\ bookings[b].ticketHash)
     THEN Answered(p, "validateTicket", b, 404)
     ELSE IF bookings[b].qrValidated
     THEN Answered(p, "validateTicket", b, 409)
     ELSE /\ proc' = [proc EXCEPT ![p] =
                        [IdleProc EXCEPT !.pc = "vt_save", !.op = "validateTicket",
                                         !.bk = b, !.loaded = bookings[b].status]]
          /\ last' = NoAnswer
  /\ UNCHANGED <<now, seats, rowLock, bookings, event, locks, charged>>

\* Booking.prototype.validateTicket on the instance read: false without a
\* save unless its status is CONFIRMED, else qrValidated is saved.  The
\* handler does not look at what it returns and answers valid: true.
ValidateSave(p) ==
  /\ proc[p].pc = "vt_save"
  /\ LET b == proc[p].bk IN
     /\ bookings' = IF proc[p].loaded # "CONFIRMED" THEN bookings
                     ELSE [bookings EXCEPT ![b].qrValidated = TRUE]
     /\ Answered(p, "validateTicket", b, 200)
  /\ UNCHANGED <<now, seats, rowLock, event, locks, charged>>

ValidateSteps ==
  \/ \E p \in Procs, b \in BookingIds : ValidateBegin(p, b)
  \/ \E p \in Procs : ValidateSave(p)

\* One ticket of the class flow from the seat selection to the gate: a
\* single selection of one seat, confirmed and cancelled by its owner, and
\* validateTicket called with its hash and with an unknown one.
NextTicket ==
  \/ Tick
  \/ \E p \in Procs, u \in Users :
        bookings = <<>> /\ Creating = {} /\ SelectBegin(p, u, "SILVER", {"A1"})
  \/ \E p \in Procs : SelectCommit(p)
  \/ \E b \in BookingIds : ExpiryTimer(b)
  \/ \E p \in Procs, b \in 1..Len(bookings) :
        ClassConfirmBegin(p, bookings[b].userId, b, "CARD")
  \/ \E p \in Procs : ClassConfirmPaymentFails(p)
  \/ \E p \in Procs : ClassConfirmArtifactFails(p)
  \/ \E p \in Procs : ClassConfirmCommit(p)
  \/ \E p \in Procs, b \in 1..Len(bookings) :
        ClassCancelBooking(p, bookings[b].userId, b)
  \/ ValidateSteps

SpecTicket == Init /\ [][NextTicket]_vars

\* C39: validateTicket answers valid for a ticket at most once and only for
\* a CONFIRMED booking: the booking is CONFIRMED and not yet validated when
\* the answer is given, and validated after it.
C39_TicketAcceptedOnce ==
  [][(last'.op = "validateTicket" /\ last'.resp = 200)
       => /\ bookings[last'.bk].status = "CONFIRMED"
          /\ ~bookings[last'.bk].qrValidated
          /\ bookings'[last'.bk].qrValidated]_vars
====
